---- MODULE Spec2Model ----
(***************************************************************************)
(* The Loan Lifecycle Bridge of micro_lender: BlockchainService's local    *)
(* JSON ledger (backend/app/services/blockchain_service.py), the two       *)
(* service instances the process builds (main.py and routes/loan_routes.py)*)
(* and the HTTP handlers that reach them.                                  *)
(*                                                                         *)
(* Amounts are Python floats (IEEE 754 binary64) in the source.  A request *)
(* carries an amount as a decimal literal, held here as an integer number  *)
(* of 10^-9; the handler's float is the binary64 value nearest to it, and  *)
(* sums, products, quotients and round(x, 8) are computed on binary64      *)
(* values with round-to-nearest-even, bit for bit.  A stored value that is  *)
(* the result of round(x, 8) is held as its decimal (a multiple of 10^-8   *)
(* and its nearest binary64 value determine each other); funded_amount, an *)
(* unrounded running sum, is held as the binary64 value itself.  A zero    *)
(* carries no sign: 0.0 and -0.0 compare equal and add alike.              *)
(***************************************************************************)
EXTENDS Integers, Sequences, FiniteSets, TLC

\* ------------------------------------------------------------------ bounds
\* Largest loan id a service instance hands out in one run.
MaxLoans == 2
\* State-changing steps in one run: successful create, fund, disburse and
\* repay calls, and restarts of the process.
MaxCalls == 4
\* Transactions the node takes from the process in one run.
MaxTx == 2

\* --------------------------------------------------------------- constants
\* round(..., 8) in create_loan and repay_loan.
Decimals == 8
\* interest_rate / 10000
BasisPoints == 10000
\* term_days / 365
DaysPerYear == 365
\* LoanCreationRequest: kyc_hash / explanation_hash min_length, max_length.
HashMinLen == 64
HashMaxLen == 66
\* LoanCreationRequest: term_days ge, le; interest_rate le.
MinTermDays == 7
MaxTermDays == 365
MaxInterestRate == 10000
\* Bits in the significand of a Python float.
Precision == 53
\* Settings: MAX_LOAN_AMOUNT, in whole units of currency.
MaxLoanAmount == 1000

\* One unit of currency (1.0) as a decimal literal of the model, and the
\* ledger's precision (10^-8) in it.
Unit == 10^9
Tick == Unit \div (10^Decimals)
\* Settings: MIN_LOAN_AMOUNT = 0.01
MinLoanAmount == Unit \div 100

\* ----------------------------------------------------------- arithmetic
\* [q, r] with a*b = q*d + r and 0 <= r < d, for a, b >= 0: the exact product
\* and quotient, evaluated by doubling so that no intermediate value leaves
\* TLC's integers.
RECURSIVE MulDivMod(_, _, _)
MulDivMod(a, b, d) ==
    IF b = 0 THEN [q |-> 0, r |-> 0]
    ELSE LET h  == MulDivMod(a, b \div 2, d)
             q2 == 2 * h.q + ((2 * h.r) \div d)
             r2 == (2 * h.r) % d
         IN  IF b % 2 = 0 THEN [q |-> q2, r |-> r2]
             ELSE [q |-> q2 + (a \div d) + ((r2 + (a % d)) \div d),
                   r |-> (r2 + (a % d)) % d]

RECURSIVE BitsOf(_)
BitsOf(k) == IF k = 0 THEN 0 ELSE 1 + BitsOf(k \div 2)

\* Digits of 15 bits: the product of two digits stays inside TLC's integers.
Base == 2^15
LimbBits == BitsOf(Base - 1)

\* ------------------------------------------------- natural numbers (limbs)
\* A natural number is the sequence of its base-2^15 digits, lowest first,
\* without leading zero digits; zero is <<>>.
RECURSIVE BNorm(_)
BNorm(n) ==
    IF n = <<>> THEN <<>>
    ELSE IF n[Len(n)] = 0 THEN BNorm(SubSeq(n, 1, Len(n) - 1)) ELSE n

RECURSIVE BFromInt(_)
BFromInt(k) == IF k = 0 THEN <<>> ELSE <<k % Base>> \o BFromInt(k \div Base)

RECURSIVE BToInt(_)
BToInt(n) == IF n = <<>> THEN 0 ELSE Head(n) + Base * BToInt(Tail(n))

RECURSIVE BAddC(_, _, _)
BAddC(a, b, c) ==
    IF a = <<>> /\ b = <<>> THEN (IF c = 0 THEN <<>> ELSE <<c>>)
    ELSE LET x == IF a = <<>> THEN 0 ELSE Head(a)
             y == IF b = <<>> THEN 0 ELSE Head(b)
             s == x + y + c
         IN  <<s % Base>> \o BAddC(IF a = <<>> THEN <<>> ELSE Tail(a),
                                   IF b = <<>> THEN <<>> ELSE Tail(b),
                                   s \div Base)
BAdd(a, b) == BAddC(a, b, 0)

\* a - b - c for a >= b + c, c a borrow of 0 or 1.
RECURSIVE BSubC(_, _, _)
BSubC(a, b, c) ==
    IF a = <<>> THEN <<>>
    ELSE LET y == IF b = <<>> THEN 0 ELSE Head(b)
             d == Head(a) - y - c + Base
         IN  <<d % Base>> \o BSubC(Tail(a), IF b = <<>> THEN <<>> ELSE Tail(b),
                                   1 - (d \div Base))
BSub(a, b) == BNorm(BSubC(a, b, 0))

\* a * k + c for a digit-sized k.
RECURSIVE BMulSmallC(_, _, _)
BMulSmallC(a, k, c) ==
    IF a = <<>> THEN BFromInt(c)
    ELSE LET s == Head(a) * k + c
         IN  <<s % Base>> \o BMulSmallC(Tail(a), k, s \div Base)
BMulSmall(a, k) == BNorm(BMulSmallC(a, k, 0))

RECURSIVE BMulR(_, _)
BMulR(a, b) ==
    IF b = <<>> THEN <<>>
    ELSE BAdd(BMulSmallC(a, Head(b), 0), <<0>> \o BMulR(a, Tail(b)))
BMul(a, b) == BNorm(BMulR(a, b))

\* Quotient and remainder of a by a digit-sized k > 0.
RECURSIVE BDivSmallR(_, _)
BDivSmallR(a, k) ==
    IF a = <<>> THEN [q |-> <<>>, r |-> 0]
    ELSE LET h   == BDivSmallR(Tail(a), k)
             cur == h.r * Base + Head(a)
         IN  [q |-> <<cur \div k>> \o h.q, r |-> cur % k]
NormQuotient(d) == [q |-> BNorm(d.q), r |-> d.r]
BDivSmall(a, k) == NormQuotient(BDivSmallR(a, k))

BitLen(n) == IF n = <<>> THEN 0 ELSE LimbBits * (Len(n) - 1) + BitsOf(n[Len(n)])

Zeros(k) == [i \in 1..k |-> 0]

\* n * 2^s
BShl(n, s) ==
    IF n = <<>> THEN <<>>
    ELSE Zeros(s \div LimbBits) \o BMulSmall(n, 2^(s % LimbBits))

\* n \div 2^s, and whether a 1 bit was shifted out.
LowDigits(n, k) == SubSeq(n, 1, IF k < Len(n) THEN k ELSE Len(n))
HighDigits(n, k) == IF k < Len(n) THEN SubSeq(n, k + 1, Len(n)) ELSE <<>>
Shifted(d, low) ==
    [q |-> d.q, lost |-> d.r # 0 \/ \E i \in DOMAIN low : low[i] # 0]
BShr(n, s) ==
    Shifted(BDivSmall(HighDigits(n, s \div LimbBits), 2^(s % LimbBits)),
            LowDigits(n, s \div LimbBits))

IsOdd(n) == n # <<>> /\ n[1] % 2 = 1

\* -1, 0, 1 as a < b, a = b, a > b.
RECURSIVE BCmpSame(_, _)
BCmpSame(a, b) ==
    IF a = <<>> THEN 0
    ELSE IF a[Len(a)] < b[Len(b)] THEN -1
    ELSE IF a[Len(a)] > b[Len(b)] THEN 1
    ELSE BCmpSame(SubSeq(a, 1, Len(a) - 1), SubSeq(b, 1, Len(b) - 1))
BCmp(a, b) ==
    IF Len(a) < Len(b) THEN -1 ELSE IF Len(a) > Len(b) THEN 1 ELSE BCmpSame(a, b)

\* n \div 2^s rounded to nearest, ties to even; `inexact` says that n itself
\* stands for a value slightly above n.
\* h is n \div 2^(s-1) with its lost bits, q is h.q \div 2: q goes up by one
\* when the bit below it is set and either something lies below that bit or
\* q is odd.
RoundHalf(h, q, inexact) ==
    IF IsOdd(h.q) /\ (h.lost \/ inexact \/ IsOdd(q)) THEN BAdd(q, <<1>>) ELSE q
RoundLast(h, inexact) == RoundHalf(h, BShr(h.q, 1).q, inexact)
ShrRound(n, s, inexact) ==
    IF s = 0 THEN n ELSE RoundLast(BShr(n, s - 1), inexact)

\* ------------------------------------------------------- binary64 values
\* A float is m * 2^e, or its negative when neg, with m of exactly 53 bits;
\* zero is m = <<>>, never neg.
FZero == [m |-> <<>>, e |-> 0, neg |-> FALSE]

FNeg(x) == IF x.m = <<>> THEN x ELSE [x EXCEPT !.neg = ~@]
FSigned(neg, x) == IF neg THEN FNeg(x) ELSE x

\* The float nearest (n [+ a little, if inexact]) * 2^e, ties to even.
\* Rounding up may carry into a 54th bit.
FCarry(m, e) ==
    IF BitLen(m) > Precision THEN [m |-> BShr(m, 1).q, e |-> e + 1, neg |-> FALSE]
    ELSE [m |-> m, e |-> e, neg |-> FALSE]
FRoundLen(n, e, inexact, len) ==
    IF len <= Precision
    THEN [m |-> BShl(n, Precision - len), e |-> e - (Precision - len),
          neg |-> FALSE]
    ELSE FCarry(ShrRound(n, len - Precision, inexact), e + (len - Precision))
FRound(n, e, inexact) ==
    IF n = <<>> THEN FZero ELSE FRoundLen(n, e, inexact, BitLen(n))

FFromInt(k) == FRound(BFromInt(k), 0, FALSE)

\* x + y: the exact sum of a * 2^e and b * 2^e, or their exact difference
\* when the signs differ (c compares a with b), rounded once.
FAddOpposite(neg, a, b, e, c) ==
    IF c = 0 THEN FZero
    ELSE IF c > 0 THEN FSigned(neg, FRound(BSub(a, b), e, FALSE))
    ELSE FSigned(~neg, FRound(BSub(b, a), e, FALSE))
FAddAligned(x, y, a, b, e) ==
    IF x.neg = y.neg THEN FSigned(x.neg, FRound(BAdd(a, b), e, FALSE))
    ELSE FAddOpposite(x.neg, a, b, e, BCmp(a, b))
FAddAt(x, y, e) == FAddAligned(x, y, BShl(x.m, x.e - e), BShl(y.m, y.e - e), e)
FAdd(x, y) ==
    IF x.m = <<>> THEN y
    ELSE IF y.m = <<>> THEN x
    ELSE FAddAt(x, y, IF x.e < y.e THEN x.e ELSE y.e)

FMul(x, y) == FSigned(x.neg # y.neg, FRound(BMul(x.m, y.m), x.e + y.e, FALSE))

\* x / k for a digit-sized k > 0.
FQuotient(d, e) == FRound(d.q, e, d.r # 0)
FDivSmall(x, k) ==
    FSigned(x.neg, FQuotient(BDivSmall(BShl(x.m, 2 * LimbBits), k),
                             x.e - 2 * LimbBits))

\* |x| >= |y|
FGeAbs(x, y) ==
    IF y.m = <<>> THEN TRUE
    ELSE IF x.m = <<>> THEN FALSE
    ELSE IF x.e # y.e THEN x.e > y.e
    ELSE BCmp(x.m, y.m) >= 0

\* x >= y
FGe(x, y) ==
    IF x.neg # y.neg THEN y.neg
    ELSE IF x.neg THEN FGeAbs(y, x)
    ELSE FGeAbs(x, y)

\* float(<decimal literal>) for a literal n >= 0: the float nearest n / 10^9.
\* (n * 2^90) \div 10^9 in three divisions by 1000, a remainder of any of them
\* kept as a remainder of the whole.
KeepRemainder(d, x) == [q |-> x.q, r |-> IF d.r # 0 THEN 1 ELSE x.r]
BDivAgain(d, k) == KeepRemainder(d, BDivSmall(d.q, k))
FromNano(n) ==
    FQuotient(BDivAgain(BDivAgain(BDivSmall(BShl(BFromInt(n), 6 * LimbBits),
                                            1000), 1000), 1000),
              -(6 * LimbBits))

\* round(x, 8) as a decimal: x * 10^8 to the nearest integer, ties to even
\* (CPython rounds the exact binary value), times 10^-8, with the sign of x.
NearestInt(n, e) == IF e >= 0 THEN BShl(n, e) ELSE ShrRound(n, -e, FALSE)
PyRoundAbs(x) ==
    IF x.m = <<>> THEN 0
    ELSE Tick * BToInt(NearestInt(BMulSmall(BMulSmall(x.m, 10^(Decimals \div 2)),
                                            10^(Decimals - Decimals \div 2)),
                                  x.e))
PyRound(x) == IF x.neg THEN 0 - PyRoundAbs(x) ELSE PyRoundAbs(x)

\* ------------------------------------------------------ decimal literals
\* The most a funded or repaid amount may reach in the model (TLC's integers
\* end at 2^31 - 1).
MaxAmount == 2 * Unit
\* total + amount lies within -MaxAmount .. MaxAmount, decided without a sum
\* that leaves TLC's integers.
InRange(total, amount) ==
    IF amount >= 0
    THEN IF total <= 0 THEN TRUE ELSE amount <= MaxAmount - total
    ELSE IF total >= 0 THEN TRUE ELSE amount >= (0 - MaxAmount) - total

\* Decimal literals of the lifecycle runs: principals 1.0 and 1.8, fundings
\* of 0.4, 0.6 and 1.0, repayments of 0.000000004, 1.024657526 and 1.2466.
Principals == {Unit, 18 * (Unit \div 10)}
FundAmounts == {4 * (Unit \div 10), 6 * (Unit \div 10), Unit}
RepayAmounts == {4, Unit + 24657526, 12466 * (Unit \div 10000)}
\* Amounts of the conversion runs: 0.000000015 to 0.00000045, 0.01 to 0.30
\* and the amounts of the lifecycle runs.
WeiAmounts ==
    {15 * k : k \in 1..30} \cup {k * (Unit \div 100) : k \in 1..30}
        \cup FundAmounts \cup RepayAmounts
\* Amounts of the runs with amounts of either sign: -0.6, -0.000000004, 0.4
\* and 1.0 ("amount: float" in the query string takes any float).
SignedAmounts == {0 - 6 * (Unit \div 10), 0 - 4, 4 * (Unit \div 10), Unit}

\* The terms of the numeric runs, the ends of each accepted range among them.
NumPrincipals == {5, 675493241, Unit}
NumRates == {0, 8503, MaxInterestRate}
NumTerms == {MinTermDays, 287, MaxTermDays}

\* float(<decimal literal>) for the literals above, converted once.
Literals == {0, MaxAmount} \cup Principals \cup FundAmounts \cup RepayAmounts
                \cup NumPrincipals
LiteralFloat == [n \in Literals |-> FromNano(n)]
FloatAbs(n) == IF n \in Literals THEN LiteralFloat[n] ELSE FromNano(n)
\* float(<decimal literal>); -x is converted as x is and negated.
Float(n) == IF n < 0 THEN FNeg(FloatAbs(0 - n)) ELSE FloatAbs(n)

\* ------------------------------------------------------- ledger arithmetic
\* round(principal * (1 + interest_rate / 10000 * term_days / 365), 8)
TotalRepayment(principal, interest_rate, term_days) ==
    LET rate   == FDivSmall(FFromInt(interest_rate), BasisPoints)
        years  == FDivSmall(FMul(rate, FFromInt(term_days)), DaysPerYear)
        factor == FAdd(FFromInt(1), years)
    IN  PyRound(FMul(Float(principal), factor))

\* entry.get("funded_amount", 0.0)
GetFunded(entry) ==
    IF "funded_amount" \in DOMAIN entry THEN entry.funded_amount ELSE FZero

\* A funding that overwrites the stored amount instead of adding to it.
FundedAmountOverwrite(entry, amount) == Float(amount)

\* entry["funded_amount"] = entry.get("funded_amount", 0.0) + amount
FundedAmount(entry, amount) == FAdd(GetFunded(entry), Float(amount))

\* if entry["funded_amount"] >= entry["principal"]: entry["status"] = "Funded"
StatusAfterFund(entry, funded) ==
    IF FGe(funded, Float(entry.principal)) THEN "Funded" ELSE entry.status

\* round(entry.get("amount_repaid", 0.0) + amount, 8)
AmountRepaid(entry, amount) ==
    PyRound(FAdd(Float(entry.amount_repaid), Float(amount)))

\* if entry["amount_repaid"] >= entry["total_repayment"]: entry["status"] = "Repaid"
\* Both are results of round(x, 8), which compare as their decimals do.
StatusAfterRepay(entry, repaid) ==
    IF repaid >= entry.total_repayment THEN "Repaid" ELSE entry.status

\* A funding that records the lender as the borrower of the loan.
FundedEntryLender(entry, amount) ==
    LET funded == FundedAmount(entry, amount)
    IN  [status |-> StatusAfterFund(entry, funded)]
            @@ [funded_amount |-> funded, borrower |-> "0xLender"] @@ entry

\* fund_loan's update of the entry (funded_amount is a new key on the first
\* funding).
FundedEntry(entry, amount) ==
    LET funded == FundedAmount(entry, amount)
    IN  [status |-> StatusAfterFund(entry, funded)]
            @@ [funded_amount |-> funded] @@ entry

\* A repayment that also rewrites total_repayment to the balance left.
RepaidEntryBalance(entry, repaid) ==
    [entry EXCEPT !.amount_repaid = repaid,
                  !.total_repayment = IF repaid >= @ THEN 0 ELSE @ - repaid,
                  !.status = StatusAfterRepay(entry, repaid)]

\* repay_loan's update of the entry, repaid being the rounded running total.
RepaidEntry(entry, repaid) ==
    [entry EXCEPT !.amount_repaid = repaid,
                  !.status = StatusAfterRepay(entry, repaid)]

\* A disbursement that takes effect on a Funded loan only.
DisbursedEntryIfFunded(entry) ==
    IF entry.status = "Funded" THEN [entry EXCEPT !.status = "Disbursed"]
    ELSE entry

\* disburse_loan's update of the entry: self._ledger[key]["status"] = "Disbursed"
DisbursedEntry(entry) == [entry EXCEPT !.status = "Disbursed"]

\* ------------------------------------------------------------- base units
\* 10 ** 18, the base units (wei) in one unit of currency.
WeiPerEther == BMul(BFromInt(Unit), BFromInt(Unit))

\* int(x) for a float x >= 0: the digits after the point are dropped.
Truncated(x) ==
    IF x.m = <<>> THEN <<>>
    ELSE IF x.e >= 0 THEN BShl(x.m, x.e) ELSE BShr(x.m, 0 - x.e).q

\* a \div 10^18 in six divisions by 1000, a remainder of any of them kept as
\* a remainder of the whole.
DivWeiPerEther(a) ==
    BDivAgain(BDivAgain(BDivAgain(BDivAgain(BDivAgain(BDivSmall(a, 1000),
        1000), 1000), 1000), 1000), 1000)

\* The float nearest n * 2^e / 10^18.
FDivWei(n, e) ==
    FQuotient(DivWeiPerEther(BShl(n, 8 * LimbBits)), e - 8 * LimbBits)

\* _wei without Web3: int(eth_amount * (10 ** 18)), a float product cut to
\* an integer.
WeiFallback(x) == Truncated(FMul(x, FRound(WeiPerEther, 0, FALSE)))

\* _from_wei without Web3: float(wei_amount) / (10 ** 18)
FDivFloat(x) == FDivWei(x.m, x.e)
FromWeiFallback(w) == FDivFloat(FRound(w, 0, FALSE))

\* str(number) in Web3.to_wei, for a float whose shortest decimal has at most
\* nine digits after the point: that decimal, in 10^-9.
ReprDecimal(x) ==
    IF x.m = <<>> THEN <<>> ELSE NearestInt(BMul(x.m, BFromInt(Unit)), x.e)

\* _wei with Web3: to_wei(eth_amount, "ether") = Decimal(str(number)) * 10^18,
\* rounded down to an integer.
WeiWeb3(x) == BMul(ReprDecimal(x), BFromInt(Unit))

\* _from_wei with Web3, as its callers take it: float(from_wei(wei, "ether")),
\* the float nearest the decimal wei / 10^18.
FromWeiWeb3(w) == FDivWei(w, 0)

Wei(x, web3) == IF web3 THEN WeiWeb3(x) ELSE WeiFallback(x)
FromWei(w, web3) == IF web3 THEN FromWeiWeb3(w) ELSE FromWeiFallback(w)

\* max([int(k) for k in self._ledger.keys()], default=0)
MaxKey(doc) ==
    IF DOMAIN doc = {} THEN 0
    ELSE CHOOSE k \in DOMAIN doc : \A j \in DOMAIN doc : j <= k

\* ------------------------------------------------------------------ inputs
\* A hash string, by what the code looks at: its length, whether it is
\* hex digits (with or without the 0x prefix), and which value it is.
Hash(len, hex, id) == [len |-> len, hex |-> hex, id |-> id]

\* validators.validate_hash: ^0x[a-fA-F0-9]{64}$
ValidateHash(h) == h.len = HashMaxLen /\ h.hex

\* The two service instances of the process: main.py's blockchain_service and
\* routes/loan_routes.py's blockchain.
Services == {"main", "routes"}

LoanIds == 1..MaxLoans

\* The hash values of the lifecycle runs: generate_hash's "0x" + 64 hex digits.
KH == Hash(HashMaxLen, TRUE, 1)
EH == Hash(HashMaxLen, TRUE, 2)

Request(p, t, r, kh, eh) ==
    [principal |-> p, term_days |-> t, interest_rate |-> r,
     kyc_hash |-> kh, explanation_hash |-> eh, risk_category |-> "Low",
     probability_of_default |-> 250, borrower_address |-> "0xBorrower"]

Requests == {Request(p, 90, 1000, KH, EH) : p \in Principals}

\* The hash values of the gate runs: an empty string, 64 characters that are
\* not hex digits, a digest KYC submission records (hexdigest, no prefix), a
\* digest nothing records, and the same for explanations ("0x" + hexdigest).
KycHashes == {Hash(0, FALSE, 0), Hash(HashMinLen, FALSE, 3),
              Hash(HashMinLen, TRUE, 4), Hash(HashMinLen, TRUE, 5)}
RecordableKyc == {Hash(HashMinLen, TRUE, 4)}
ExplHashes == {Hash(HashMinLen, FALSE, 6), Hash(HashMaxLen, TRUE, 7),
               Hash(HashMaxLen, TRUE, 8)}
RecordableExpl == {Hash(HashMaxLen, TRUE, 7)}

GateRequests ==
    {Request(Unit, 90, 1000, kh, eh) : kh \in KycHashes, eh \in ExplHashes}
WorkflowRequests == {Request(Unit, 90, 1000, KH, EH)}

NumRequests ==
    {Request(p, t, r, KH, EH) : p \in NumPrincipals, t \in NumTerms, r \in NumRates}

\* Requests at and beyond the ends of the ranges: principals of -1.0 and
\* 0.005, terms of 6 and 366 days, a rate of 10001 basis points, and one
\* request inside every range.
TermRequests ==
    {Request(Unit, 90, 1000, KH, EH),
     Request(0 - Unit, 90, 1000, KH, EH),
     Request(MinLoanAmount \div 2, 90, 1000, KH, EH),
     Request(Unit, MinTermDays - 1, 1000, KH, EH),
     Request(Unit, MaxTermDays + 1, 1000, KH, EH),
     Request(Unit, 90, MaxInterestRate + 1, KH, EH)}

\* The requests of the read runs: two borrowers.
ReadRequests ==
    {[Request(Unit, 90, 1000, KH, EH) EXCEPT !.borrower_address = a] :
        a \in {"0xBorrower", "0xOther"}}

\* create_loan's total_repayment for the terms of the requests above,
\* computed once.
LoanTerms(req) == <<req.principal, req.interest_rate, req.term_days>>
RepaymentOf ==
    [t \in {LoanTerms(req) : req \in Requests \cup GateRequests
                                    \cup WorkflowRequests \cup NumRequests
                                    \cup TermRequests}
        |-> TotalRepayment(t[1], t[2], t[3])]

\* ------------------------------------------------------------------- state
VARIABLES
    ledger,          \* ledger[s]: self._ledger of service instance s
    local_counter,   \* local_counter[s]: self._local_counter of instance s
    file,            \* the document in storage/loans.json
    kyc_records,     \* KYCService.kyc_records (storage/kyc_records.json)
    kyc_documents,   \* hashes under storage/kyc_documents
    explanations,    \* hashes with a file under storage/explanations
    resp,            \* the last request handled and its response
    hist,            \* per loan of "main": the calls made on it since creation
    issued,          \* issued[id]: successful create_loan calls that returned id
    calls,           \* state-changing steps so far
    config,          \* the environment BlockchainService.__init__ reads
    chain,           \* the remote ledger, as far as the signing account goes
    sent,            \* nonces of the transactions the node took, in order
    disk_ok,         \* whether storage/loans.json can be written
    torn,            \* the document on disk is a cut-off text
    result,          \* what the last service call did and returned
    served,          \* <<kind, backend>> of the service calls since the start
    log              \* the on-chain results returned since the start

vars == <<ledger, local_counter, file, kyc_records, kyc_documents, explanations,
          resp, hist, issued, calls, config, chain, sent, disk_ok, torn,
          result, served, log>>

\* What the handlers of the local ledger never touch.
quiet == <<config, chain, sent, disk_ok>>

NoReq == [none |-> TRUE]

Response(op, code, success, loan_id, gate, bridge, req) ==
    [op |-> op, code |-> code, success |-> success, loan_id |-> loan_id,
     gate |-> gate, bridge |-> bridge, req |-> req]

\* The log of a loan just created with total_repayment tr: the amounts of the
\* fund and repay calls made on it, the status each left, the disbursements.
NewHist(tr) == [total_repayment |-> tr, funds |-> <<>>, fundStatus |-> <<>>,
                repays |-> <<>>, repayStatus |-> <<>>, disburses |-> 0]

\* ------------------------------------------------------------ configuration
\* The environment of the process: CONTRACT_ADDRESS (unset, not an address,
\* an address), PRIVATE_KEY (unset, not a key, a key), whether Web3(...) and
\* the middleware injection return without raising, whether an ABI is loaded
\* (an unreadable artifacts file leaves none), and whether the RPC transport
\* at ETHEREUM_RPC_URL answers.  Both service instances read the same one.
Config(address, key, w3, abi, rpc) ==
    [address |-> address, key |-> key, w3 |-> w3, abi |-> abi, rpc |-> rpc]

\* Nothing set: the defaults of os.getenv.
DefaultConfig == Config("none", "none", TRUE, TRUE, FALSE)

\* self.contract is attached: the address is set and valid, self.w3 and
\* self.abi are there.  No request goes to the transport for it.
Contract == config.address = "valid" /\ config.w3 /\ config.abi

\* self.account is loaded: Account.from_key accepted PRIVATE_KEY.
Account == config.key = "valid"

\* "if self.contract and self.account" of the four mutating methods.
OnChain == Contract /\ Account

\* "if self.contract" of get_loan and get_borrower_loans.
ReadsOnChain == Contract

\* The dictionary a service method returns: "success", "error" (the text of
\* the error, by its kind) and whether it holds a transaction hash.
Report(success, error, tx_hash) ==
    [success |-> success, error |-> error, tx_hash |-> tx_hash]

\* A service call: mutating or reading, the backend that served it, what
\* became of it there, and the dictionary returned.
Served(kind, backend, fate, report) ==
    [kind |-> kind, backend |-> backend, fate |-> fate, report |-> report]

NoResult == Served("none", "none", "none", Report(TRUE, "none", FALSE))

\* BlockchainService.__init__ on a fresh storage directory: the first instance
\* writes an empty document, both load it, both counters start at 0.
Start(cfg) ==
    /\ config = cfg
    /\ chain = [up |-> cfg.rpc, mined |-> 0, pending |-> {}, loans |-> 0]
    /\ sent = <<>>
    /\ disk_ok = TRUE
    /\ torn = FALSE
    /\ result = NoResult
    /\ served = {}
    /\ log = {}
    /\ file = <<>>
    /\ ledger = [s \in Services |-> <<>>]
    /\ local_counter = [s \in Services |-> MaxKey(<<>>)]
    /\ kyc_records = {}
    /\ kyc_documents = {}
    /\ explanations = {}
    /\ resp = Response("start", 0, TRUE, 0, "none", FALSE, NoReq)
    /\ hist = <<>>
    /\ issued = [i \in LoanIds |-> 0]
    /\ calls = 0

Init == Start(DefaultConfig)

\* --------------------------------------------------- hash gate and schema
\* LoanCreationRequest's field constraints (risk_category,
\* probability_of_default and borrower_address are well-formed in every
\* request of the model).
SchemaValid(req) ==
    /\ req.principal > 0
    /\ req.term_days >= MinTermDays /\ req.term_days <= MaxTermDays
    /\ req.interest_rate >= 0 /\ req.interest_rate <= MaxInterestRate
    /\ req.kyc_hash.len >= HashMinLen /\ req.kyc_hash.len <= HashMaxLen
    /\ req.explanation_hash.len >= HashMinLen
    /\ req.explanation_hash.len <= HashMaxLen

\* The methods of the KYCService class main.py imports
\* (app.services.kyc_service): kyc_exists is not one of them, it is a method
\* of the unused KYCService of utils/hash_utils.py.
KycServiceMethods ==
    {"add_kyc_record", "verify_kyc", "verify_name_match", "verify_age"}

\* utils/hash_utils.py KYCService.kyc_exists: kyc_hash in self.kyc_records
KycExists(h) == h \in kyc_records

\* StorageService.explanation_exists: the explanation's file exists
ExplanationExists(h) == h \in explanations

\* ------------------------------------------------------ BlockchainService
\* _persist_ledger: open(path, "w") cuts the document to nothing and
\* json.dump writes the whole in-memory ledger over it.  When the disk fails,
\* either open raises and the document stays as it was, or the write stops
\* part-way and a cut-off text is left; the exception is logged and dropped.
Persist(doc) ==
    IF disk_ok THEN file' = doc /\ torn' = FALSE
    ELSE \/ UNCHANGED <<file, torn>>
         \/ file' = <<>> /\ torn' = TRUE

\* The service call being served: it becomes the last result and is counted
\* for its backend.
Serve(r) ==
    /\ result' = r
    /\ served' = served \cup {<<r.kind, r.backend>>}
    /\ log' = IF r.backend = "chain" /\ r.kind = "mutate" THEN log \cup {r} ELSE log

\* A created entry that starts out "Funded".
NewEntryFunded(lid, req, tr) ==
    [loan_id |-> lid, borrower |-> req.borrower_address,
     principal |-> req.principal, interest_rate |-> req.interest_rate,
     term_days |-> req.term_days, total_repayment |-> tr,
     amount_repaid |-> 0, status |-> "Funded", kyc_hash |-> req.kyc_hash,
     explanation_hash |-> req.explanation_hash,
     risk_category |-> req.risk_category,
     probability_of_default |-> req.probability_of_default]

\* The entry create_loan stores.
NewEntry(lid, req, tr) ==
    [loan_id |-> lid, borrower |-> req.borrower_address,
     principal |-> req.principal, interest_rate |-> req.interest_rate,
     term_days |-> req.term_days, total_repayment |-> tr,
     amount_repaid |-> 0, status |-> "Pending", kyc_hash |-> req.kyc_hash,
     explanation_hash |-> req.explanation_hash,
     risk_category |-> req.risk_category,
     probability_of_default |-> req.probability_of_default]

\* _next_local_id
NextLocalId(s) == local_counter[s] + 1

\* create_loan, local ledger branch, on service instance s; always succeeds.
CreateLoanLocal(s, req) ==
    /\ local_counter[s] < MaxLoans
    /\ calls < MaxCalls
    /\ calls' = calls + 1
    /\ LET tr  == RepaymentOf[LoanTerms(req)]
             lid == NextLocalId(s)
             doc == (lid :> NewEntry(lid, req, tr)) @@ ledger[s]
         IN  /\ local_counter' = [local_counter EXCEPT ![s] = lid]
             /\ ledger' = [ledger EXCEPT ![s] = doc]
             /\ Persist(doc)
             /\ Serve(Served("mutate", "local", "local",
                             Report(TRUE, "none", FALSE)))
             /\ issued' = [issued EXCEPT ![lid] = @ + 1]
             /\ hist' = IF s = "main" THEN (lid :> NewHist(tr)) @@ hist ELSE hist

\* A handler that returns r without reaching the bridge.
Reject(r) ==
    /\ resp' = r
    /\ UNCHANGED <<ledger, local_counter, file, hist, issued, calls, torn,
                   result, served, log>>
    /\ UNCHANGED quiet

\* ------------------------------------------------- the on-chain branch
\* chain.up: the transport answers now; chain.mined: the transactions of the
\* signing account included so far, which is what get_transaction_count
\* answers (web3 asks for the count at the "latest" block); chain.pending:
\* its transactions the node holds and has not included; chain.loans: the
\* loans the contract holds.

\* What becomes of one mutating on-chain call: the transport does not answer
\* (get_transaction_count raises), the node refuses the transaction
\* (send_raw_transaction raises), the transaction is included and succeeds
\* (receipt status 1), is included and fails (status 0), or no receipt comes
\* within timeout=300 (wait_for_transaction_receipt raises).
TxFates == {"down", "rejected", "included", "reverted", "timeout"}
Accepted == {"included", "reverted", "timeout"}

\* A report in which a failed receipt is raised as an exception like the
\* timeout, and so loses the hash.
TxReportRaises(create, fate) ==
    CASE fate = "included" -> Report(TRUE, "none", TRUE)
      [] fate = "reverted" -> Report(FALSE, "TimeExhausted", FALSE)
      [] fate = "timeout"  -> Report(FALSE, "TimeExhausted", FALSE)
      [] fate = "rejected" -> Report(FALSE, "ValueError", FALSE)
      [] fate = "down"     -> Report(FALSE, "ConnectionError", FALSE)

\* The dictionary the method returns.  Every exception ends in
\* {"success": False, "error": str(e)}; a failed receipt in "tx_failed" with
\* the hash for create_loan, and in success False with the hash for the
\* other three.
TxReport(create, fate) ==
    CASE fate = "included" -> Report(TRUE, "none", TRUE)
      [] fate = "reverted" ->
            Report(FALSE, IF create THEN "tx_failed" ELSE "none", TRUE)
      [] fate = "timeout"  -> Report(FALSE, "TimeExhausted", FALSE)
      [] fate = "rejected" -> Report(FALSE, "ValueError", FALSE)
      [] fate = "down"     -> Report(FALSE, "ConnectionError", FALSE)

\* nonce = self.w3.eth.get_transaction_count(self.account.address)
Nonce == chain.mined

\* The remote ledger after the call.  An included transaction uses up its
\* nonce, and any other pending transaction of that nonce is dropped.
ChainAfter(create, fate) ==
    CASE fate \in {"down", "rejected"} -> chain
      [] fate = "included" ->
            [chain EXCEPT !.mined = @ + 1,
                          !.pending = {t \in @ : t.nonce # Nonce},
                          !.loans = IF create THEN @ + 1 ELSE @]
      [] fate = "reverted" ->
            [chain EXCEPT !.mined = @ + 1,
                          !.pending = {t \in @ : t.nonce # Nonce}]
      [] fate = "timeout" ->
            [chain EXCEPT !.pending = @ \cup {[nonce |-> Nonce, create |-> create]}]

\* A call that sends its transaction a second time when no receipt came.
SentAfterResend(fate) ==
    IF fate = "timeout" THEN sent \o <<Nonce, Nonce>>
    ELSE IF fate \in Accepted THEN Append(sent, Nonce) ELSE sent

\* tx_hash = self.w3.eth.send_raw_transaction(signed.rawTransaction), once in
\* each method: the transactions the node has taken, by nonce.
SentAfter(fate) == IF fate \in Accepted THEN Append(sent, Nonce) ELSE sent

\* An on-chain branch whose create_loan, when the transaction fails, goes on
\* to the local branch and takes a local id.
SubmitTxThenLocal(create, fate) ==
    /\ (fate = "down") <=> ~chain.up
    /\ fate \in Accepted => calls < MaxCalls /\ Len(sent) < MaxTx
    /\ calls' = IF fate \in Accepted THEN calls + 1 ELSE calls
    /\ chain' = ChainAfter(create, fate)
    /\ sent' = SentAfter(fate)
    /\ Serve(Served("mutate", "chain", fate, TxReport(create, fate)))
    /\ local_counter' = IF create /\ fate # "included"
                           THEN [local_counter EXCEPT !["main"] = @ + 1]
                           ELSE local_counter
    /\ UNCHANGED <<ledger, file, torn, hist, issued, config, disk_ok>>

\* The on-chain branch of create_loan, fund_loan, disburse_loan and
\* repay_loan: read the nonce, build, sign, send, wait for the receipt.
SubmitTx(create, fate) ==
    /\ (fate = "down") <=> ~chain.up
    /\ fate \in Accepted => calls < MaxCalls /\ Len(sent) < MaxTx
    /\ calls' = IF fate \in Accepted THEN calls + 1 ELSE calls
    /\ chain' = ChainAfter(create, fate)
    /\ sent' = SentAfter(fate)
    /\ Serve(Served("mutate", "chain", fate, TxReport(create, fate)))
    /\ UNCHANGED <<ledger, local_counter, file, torn, hist, issued, config,
                   disk_ok>>

\* A create_loan that fails when its receipt holds no LoanCreated event it
\* can decode.
CreateResponseStrict(op, gate, req, fate, decoded) ==
    IF fate = "included" /\ decoded
    THEN Response(op, 200, TRUE, chain.loans + 1, gate, TRUE, req)
    ELSE Response(op, 500, FALSE, 0, gate, TRUE, req)

\* loan_id = self._parse_loan_created_event(receipt) or 0 for a receipt of
\* status 1, and what the handler answers: the id in a 200, or a 500 when
\* create_loan returned no success.
CreateResponse(op, gate, req, fate, decoded) ==
    IF fate = "included"
    THEN Response(op, 200, TRUE, IF decoded THEN chain.loans + 1 ELSE 0,
                  gate, TRUE, req)
    ELSE Response(op, 500, FALSE, 0, gate, TRUE, req)

\* create_loan on-chain, as the three creating handlers answer it: 500 when
\* the result is not a success, else 200 with the loan id decoded from the
\* LoanCreated event, 0 when no event can be decoded.
CreateLoanChain(op, gate, req) ==
    \E fate \in TxFates, decoded \in BOOLEAN :
        /\ SubmitTx(TRUE, fate)
        /\ resp' = CreateResponse(op, gate, req, fate, decoded)

\* fund_loan, disburse_loan, repay_loan on-chain: the handler returns the
\* result as it is.
MutateChain(op, loan_id) ==
    \E fate \in TxFates :
        /\ SubmitTx(FALSE, fate)
        /\ resp' = Response(op, 200, fate = "included", loan_id, "none", TRUE,
                            NoReq)

\* ----------------------------------------------------------- HTTP handlers
\* POST /api/loans/create (main.py).  The request passes the schema, then the
\* handler calls kyc_service.kyc_exists, which the imported class does not
\* have: the AttributeError is caught by "except Exception" and answered 500.
CreateLoanMain(req) ==
    /\ UNCHANGED <<kyc_records, kyc_documents, explanations>>
    /\ IF ~SchemaValid(req)
         THEN Reject(Response("create_main", 422, FALSE, 0, "none", FALSE, req))
       ELSE IF "kyc_exists" \notin KycServiceMethods
         THEN Reject(Response("create_main", 500, FALSE, 0, "error", FALSE, req))
       ELSE IF ~KycExists(req.kyc_hash) \/ ~ExplanationExists(req.explanation_hash)
         THEN Reject(Response("create_main", 400, FALSE, 0, "failed", FALSE, req))
       ELSE IF OnChain THEN CreateLoanChain("create_main", "passed", req)
       ELSE /\ CreateLoanLocal("main", req)
            /\ resp' = Response("create_main", 200, TRUE, NextLocalId("main"),
                                "passed", TRUE, req)
            /\ UNCHANGED quiet

\* POST /api/loan/create (routes/loan_routes.py): schema, then create_loan on
\* the router's own service instance.
CreateLoanRoute(req) ==
    /\ UNCHANGED <<kyc_records, kyc_documents, explanations>>
    /\ IF ~SchemaValid(req)
         THEN Reject(Response("create_route", 422, FALSE, 0, "none", FALSE, req))
       ELSE IF OnChain THEN CreateLoanChain("create_route", "none", req)
       ELSE /\ CreateLoanLocal("routes", req)
            /\ resp' = Response("create_route", 200, TRUE, NextLocalId("routes"),
                                "none", TRUE, req)
            /\ UNCHANGED quiet

\* POST /api/workflow/complete-loan-application (main.py): KYC checks, storage
\* of the KYC documents, scoring, storage of the explanation, then create_loan
\* on main.py's instance with the form's unvalidated terms and the two hashes
\* the handler has just generated.
CompleteLoanApplication(req, kycOk, mlOk) ==
    /\ UNCHANGED kyc_records
    /\ IF ~kycOk
         THEN /\ Reject(Response("workflow", 400, FALSE, 0, "none", FALSE, req))
              /\ UNCHANGED <<kyc_documents, explanations>>
       ELSE IF ~mlOk
         THEN /\ Reject(Response("workflow", 500, FALSE, 0, "none", FALSE, req))
              /\ kyc_documents' = kyc_documents \cup {req.kyc_hash}
              /\ UNCHANGED explanations
       ELSE /\ kyc_documents' = kyc_documents \cup {req.kyc_hash}
            /\ explanations' = explanations \cup {req.explanation_hash}
            /\ IF OnChain THEN CreateLoanChain("workflow", "none", req)
               ELSE /\ CreateLoanLocal("main", req)
                    /\ resp' = Response("workflow", 200, TRUE,
                                        NextLocalId("main"), "none", TRUE, req)
                    /\ UNCHANGED quiet

\* POST /api/kyc/submit (routes/kyc_routes.py, registered before main.py's
\* handler of the same path): KYCService.verify_kyc.  A failed verification
\* is returned as a result; a passed one records the hash (add_kyc_record)
\* and then calls storage.save_json, which StorageService does not have, so
\* the request ends in an unhandled error after the record is kept.
SubmitKyc(h, verified) ==
    /\ resp' = Response("kyc_submit", IF verified THEN 500 ELSE 200, FALSE, 0,
                        "none", FALSE, NoReq)
    /\ kyc_records' = IF verified THEN kyc_records \cup {h} ELSE kyc_records
    /\ UNCHANGED <<ledger, local_counter, file, kyc_documents, explanations,
                   hist, issued, calls, torn, result, served, log>>
    /\ UNCHANGED quiet

\* POST /api/score/predict (routes/ml_routes.py, registered before main.py's
\* handler of the same path): an invalid feature set is answered 400, else
\* the explanation is written under storage/explanations.
PredictScore(h, valid) ==
    /\ resp' = Response("predict", IF valid THEN 200 ELSE 400, valid, 0,
                        "none", FALSE, NoReq)
    /\ explanations' = IF valid THEN explanations \cup {h} ELSE explanations
    /\ UNCHANGED <<ledger, local_counter, file, kyc_records, kyc_documents,
                   hist, issued, calls, torn, result, served, log>>
    /\ UNCHANGED quiet

\* A not-found answer that writes the ledger of the instance to the file on
\* its way out.
LoanNotFoundPersists(op, loan_id) ==
    /\ resp' = Response(op, 200, FALSE, loan_id, "none", TRUE, NoReq)
    /\ Serve(Served("mutate", "local", "local",
                    Report(FALSE, "loan_not_found", FALSE)))
    /\ file' = ledger["main"]
    /\ UNCHANGED <<ledger, hist, calls, torn>>
    /\ UNCHANGED quiet

\* The answer of fund / disburse / repay on an id the ledger does not hold.
LoanNotFound(op, loan_id) ==
    /\ resp' = Response(op, 200, FALSE, loan_id, "none", TRUE, NoReq)
    /\ Serve(Served("mutate", "local", "local",
                    Report(FALSE, "loan_not_found", FALSE)))
    /\ UNCHANGED <<ledger, file, hist, calls, torn>>
    /\ UNCHANGED quiet

\* A successful local mutation of main.py's instance: the entry is replaced,
\* the ledger persisted, the call logged.
Mutate(op, loan_id, entry, h) ==
    LET doc == [ledger["main"] EXCEPT ![loan_id] = entry]
    IN  /\ calls < MaxCalls
        /\ ledger' = [ledger EXCEPT !["main"] = doc]
        /\ Persist(doc)
        /\ Serve(Served("mutate", "local", "local", Report(TRUE, "none", FALSE)))
        /\ hist' = IF loan_id \in DOMAIN hist
                     THEN [hist EXCEPT ![loan_id] = h] ELSE hist
        /\ calls' = calls + 1
        /\ resp' = Response(op, 200, TRUE, loan_id, "none", TRUE, NoReq)
        /\ UNCHANGED quiet

HistOf(loan_id) == IF loan_id \in DOMAIN hist THEN hist[loan_id] ELSE NewHist(0)

\* POST /api/loans/{loan_id}/fund -> blockchain_service.fund_loan.  The
\* handler is "async def" and awaits nothing, so it runs to completion on the
\* event loop before another request's handler starts.
FundLoan(loan_id, amount) ==
    /\ UNCHANGED <<local_counter, kyc_records, kyc_documents, explanations,
                   issued>>
    /\ IF OnChain THEN MutateChain("fund", loan_id)
       ELSE IF loan_id \notin DOMAIN ledger["main"]
         THEN LoanNotFound("fund", loan_id)
       ELSE LET entry == ledger["main"][loan_id]
                new   == FundedEntry(entry, amount)
                h     == HistOf(loan_id)
            IN  /\ FGe(Float(MaxAmount), new.funded_amount)
                /\ FGe(new.funded_amount, Float(0 - MaxAmount))
                /\ Mutate("fund", loan_id, new,
                          [h EXCEPT !.funds = Append(@, amount),
                                    !.fundStatus = Append(@, new.status)])

\* POST /api/loans/{loan_id}/disburse -> blockchain_service.disburse_loan
DisburseLoan(loan_id) ==
    /\ UNCHANGED <<local_counter, kyc_records, kyc_documents, explanations,
                   issued>>
    /\ IF OnChain THEN MutateChain("disburse", loan_id)
       ELSE IF loan_id \notin DOMAIN ledger["main"]
         THEN LoanNotFound("disburse", loan_id)
       ELSE LET entry == ledger["main"][loan_id]
                h     == HistOf(loan_id)
            IN  Mutate("disburse", loan_id, DisbursedEntry(entry),
                       [h EXCEPT !.disburses = @ + 1])

\* POST /api/loans/{loan_id}/repay -> blockchain_service.repay_loan
RepayLoan(loan_id, amount) ==
    /\ UNCHANGED <<local_counter, kyc_records, kyc_documents, explanations,
                   issued>>
    /\ IF OnChain THEN MutateChain("repay", loan_id)
       ELSE IF loan_id \notin DOMAIN ledger["main"]
         THEN LoanNotFound("repay", loan_id)
       ELSE LET entry == ledger["main"][loan_id]
                h     == HistOf(loan_id)
            IN  /\ InRange(entry.amount_repaid, amount)
                /\ LET new == RepaidEntry(entry, AmountRepaid(entry, amount))
                   IN  Mutate("repay", loan_id, new,
                              [h EXCEPT !.repays = Append(@, amount),
                                        !.repayStatus = Append(@, new.status)])

\* The contract's getLoan view call on loan_id.  The contract is not among the
\* sources; its interface gives a struct of ten fields as the result.  For an
\* id the contract holds the answer is the loan; for any other id it is
\* either a struct of zeros or a failed call.
ContractGetLoan(loan_id) ==
    IF loan_id \in 1..chain.loans THEN {"loan"} ELSE {"zeros", "revert"}

\* BlockchainService.get_loan on main.py's instance: what the read met, and
\* whether a loan record came back (None otherwise).  On-chain every
\* exception gives None, and every struct that comes back is returned as a
\* loan.
GetLoanOutcomes(loan_id) ==
    IF ReadsOnChain
    THEN IF ~chain.up THEN {Served("read", "chain", "down", Report(FALSE, "none", FALSE))}
         ELSE {Served("read", "chain", a, Report(a # "revert", "none", FALSE)) :
                  a \in ContractGetLoan(loan_id)}
    ELSE IF loan_id \in DOMAIN ledger["main"]
         THEN {Served("read", "local", "loan", Report(TRUE, "none", FALSE))}
         ELSE {Served("read", "local", "absent", Report(FALSE, "none", FALSE))}

\* GET /api/loans/{loan_id}: 404 when get_loan returns nothing, else the
\* record.
GetLoan(loan_id) ==
    \E r \in GetLoanOutcomes(loan_id) :
        /\ Serve(r)
        /\ resp' = Response("get", IF r.report.success THEN 200 ELSE 404,
                            r.report.success, loan_id, "none", TRUE, NoReq)
        /\ UNCHANGED <<ledger, local_counter, file, kyc_records, kyc_documents,
                       explanations, hist, issued, calls, torn>>
        /\ UNCHANGED quiet

\* v.get("borrower", "").lower() == address.lower(), on the addresses of the
\* model.
Lower(address) ==
    CASE address \in {"0xBorrower", "0xBORROWER"} -> "0xborrower"
      [] OTHER -> "0xother"

\* A listing that compares the addresses as they are written.
BorrowerLoansExact(address) ==
    IF ReadsOnChain
    THEN IF ~chain.up THEN {{}} ELSE {{}} \cup {1..n : n \in 0..chain.loans}
    ELSE {{id \in DOMAIN ledger["main"] : ledger["main"][id].borrower = address}}

\* BlockchainService.get_borrower_loans on main.py's instance: the ids of the
\* local loans of that borrower; on-chain what getBorrowerLoans answers, or
\* no ids when the call fails.
BorrowerLoans(address) ==
    IF ReadsOnChain
    THEN IF ~chain.up THEN {{}} ELSE {{}} \cup {1..n : n \in 0..chain.loans}
    ELSE {{id \in DOMAIN ledger["main"] :
              Lower(ledger["main"][id].borrower) = Lower(address)}}

\* GET /api/loans/borrower/{address}
GetBorrowerLoans(address) ==
    \E ids \in BorrowerLoans(address) :
        /\ Serve(Served("read", IF ReadsOnChain THEN "chain" ELSE "local", "list",
                        Report(TRUE, "none", FALSE)))
        /\ resp' = Response("list", 200, TRUE, 0, "none", TRUE,
                            [address |-> address, loans |-> ids])
        /\ UNCHANGED <<ledger, local_counter, file, kyc_records, kyc_documents,
                       explanations, hist, issued, calls, torn>>
        /\ UNCHANGED quiet

\* The remote ledger includes a pending transaction of the signing account:
\* the one whose nonce is next.
Mine ==
    \E t \in chain.pending :
        /\ t.nonce = chain.mined
        /\ chain' = [chain EXCEPT !.mined = @ + 1,
                                  !.pending = {u \in @ : u.nonce # t.nonce},
                                  !.loans = IF t.create THEN @ + 1 ELSE @]
        /\ UNCHANGED <<ledger, local_counter, file, kyc_records, kyc_documents,
                       explanations, resp, hist, issued, calls, config, sent,
                       disk_ok, torn, result, served, log>>

\* The RPC transport goes down or comes back.
Transport ==
    /\ chain' = [chain EXCEPT !.up = ~@]
    /\ UNCHANGED <<ledger, local_counter, file, kyc_records, kyc_documents,
                   explanations, resp, hist, issued, calls, config, sent,
                   disk_ok, torn, result, served, log>>

\* The process restarts: both instances are built again and load the document
\* (_ensure_ledger_loaded), and each counter restarts at its largest key.  A
\* cut-off document fails to parse and is taken as an empty ledger (file is
\* <<>> while torn); it stays on disk as it is.
Restart ==
    /\ calls < MaxCalls
    /\ calls' = calls + 1
    /\ ledger' = [s \in Services |-> file]
    /\ local_counter' = [s \in Services |-> MaxKey(file)]
    /\ hist' = <<>>
    /\ resp' = Response("start", 0, TRUE, 0, "none", FALSE, NoReq)
    /\ config' = [config EXCEPT !.rpc = chain.up]
    /\ result' = NoResult
    /\ served' = {}
    /\ log' = {}
    /\ UNCHANGED <<file, kyc_records, kyc_documents, explanations, issued,
                   chain, sent, disk_ok, torn>>

\* ------------------------------------------------------------ specification
Next ==
    \/ \E req \in Requests : CreateLoanRoute(req)
    \/ \E req \in Requests : CompleteLoanApplication(req, TRUE, TRUE)
    \/ \E id \in LoanIds, amount \in FundAmounts : FundLoan(id, amount)
    \/ \E id \in LoanIds : DisburseLoan(id)
    \/ \E id \in LoanIds, amount \in RepayAmounts : RepayLoan(id, amount)
    \/ Restart

Spec == Init /\ [][Next]_vars

\* Writes to storage/loans.json start or stop failing (a full or read-only
\* disk).
DiskFault ==
    /\ disk_ok' = ~disk_ok
    /\ UNCHANGED <<ledger, local_counter, file, kyc_records, kyc_documents,
                   explanations, resp, hist, issued, calls, config, chain, sent,
                   torn, result, served, log>>

\* The process is killed inside _persist_ledger of a mutating call, after
\* open(path, "w") has cut the document and before json.dump and the close
\* have written all of it, and is started again: the document is a cut-off
\* text, which fails to parse, and both instances start with an empty ledger.
CrashInPersist ==
    /\ ~OnChain
    /\ disk_ok
    /\ calls < MaxCalls
    /\ calls' = calls + 1
    /\ file' = <<>>
    /\ torn' = TRUE
    /\ ledger' = [s \in Services |-> <<>>]
    /\ local_counter' = [s \in Services |-> MaxKey(<<>>)]
    /\ hist' = <<>>
    /\ resp' = Response("start", 0, TRUE, 0, "none", FALSE, NoReq)
    /\ config' = [config EXCEPT !.rpc = chain.up]
    /\ result' = NoResult
    /\ served' = {}
    /\ log' = {}
    /\ UNCHANGED <<kyc_records, kyc_documents, explanations, issued, chain,
                   sent, disk_ok>>

\* The local ledger on a disk that can fail and in a process that can be
\* killed.
NextStore ==
    \/ \E req \in WorkflowRequests : CreateLoanRoute(req)
    \/ \E req \in WorkflowRequests : CompleteLoanApplication(req, TRUE, TRUE)
    \/ \E id \in LoanIds : FundLoan(id, Unit)
    \/ \E id \in LoanIds : DisburseLoan(id)
    \/ \E id \in LoanIds : RepayLoan(id, 12466 * (Unit \div 10000))
    \/ Restart
    \/ DiskFault
    \/ CrashInPersist

SpecStore == Init /\ [][NextStore]_vars

\* The lifecycle of main.py's instance with amounts of either sign.
NextSigned ==
    \/ \E req \in WorkflowRequests : CompleteLoanApplication(req, TRUE, TRUE)
    \/ \E id \in LoanIds, amount \in SignedAmounts : FundLoan(id, amount)
    \/ \E id \in LoanIds : DisburseLoan(id)
    \/ \E id \in LoanIds, amount \in SignedAmounts : RepayLoan(id, amount)
    \/ Restart

SpecSigned == Init /\ [][NextSigned]_vars

\* Every configuration of the backend, the six operations of the bridge on
\* main.py's instance, and the remote ledger.
Configs ==
    {Config(a, k, w, TRUE, r) : a \in {"none", "invalid", "valid"},
                                k \in {"none", "invalid", "valid"},
                                w \in BOOLEAN, r \in BOOLEAN}
        \cup {Config("valid", "valid", TRUE, FALSE, TRUE)}

InitChain == \E cfg \in Configs : Start(cfg)

NextChain ==
    \/ \E req \in WorkflowRequests : CompleteLoanApplication(req, TRUE, TRUE)
    \/ \E id \in LoanIds : FundLoan(id, Unit)
    \/ \E id \in LoanIds : DisburseLoan(id)
    \/ \E id \in LoanIds : RepayLoan(id, Unit)
    \/ \E id \in LoanIds : GetLoan(id)
    \/ \E address \in {"0xBORROWER", "0xOther"} : GetBorrowerLoans(address)
    \/ Mine
    \/ Transport
    \/ Restart

SpecChain == InitChain /\ [][NextChain]_vars

\* The creation entry points and the record stores, over requests whose
\* hashes are empty, malformed, unknown or recorded.
NextGate ==
    \/ \E req \in GateRequests : CreateLoanMain(req)
    \/ \E req \in GateRequests : CreateLoanRoute(req)
    \/ \E req \in WorkflowRequests, kycOk \in BOOLEAN, mlOk \in BOOLEAN :
          CompleteLoanApplication(req, kycOk, mlOk)
    \/ \E h \in RecordableKyc, verified \in BOOLEAN : SubmitKyc(h, verified)
    \/ \E h \in RecordableExpl, valid \in BOOLEAN : PredictScore(h, valid)

SpecGate == Init /\ [][NextGate]_vars

\* create_loan over the numeric range of the loan terms.
NextNum == \E req \in NumRequests : CreateLoanRoute(req)

SpecNum == Init /\ [][NextNum]_vars

\* The reads of the local ledger among creations and fundings by two
\* borrowers, the addresses asked for in either case.
NextReads ==
    \/ \E req \in ReadRequests : CompleteLoanApplication(req, TRUE, TRUE)
    \/ \E id \in LoanIds : FundLoan(id, Unit)
    \/ \E id \in 1..(MaxLoans + 1) : GetLoan(id)
    \/ \E address \in {"0xBorrower", "0xBORROWER", "0xOther", "0xOTHER"} :
          GetBorrowerLoans(address)
    \/ Restart

SpecReads == Init /\ [][NextReads]_vars

\* The two creating entry points over requests at and beyond the ends of the
\* ranges.
NextTerms ==
    \/ \E req \in TermRequests : CreateLoanRoute(req)
    \/ \E req \in TermRequests : CompleteLoanApplication(req, TRUE, TRUE)

SpecTerms == Init /\ [][NextTerms]_vars

\* An amount is converted to base units and back, through Web3 or through
\* the fallback arithmetic; resp holds the amount, the base units and the
\* amount that came back.
Converted(n, web3, wei) ==
    Response("wei", 200, TRUE, 0, "none", FALSE,
             [amount |-> n, w3 |-> web3, wei |-> wei, back |-> FromWei(wei, web3)])
ConvertWei(n, web3) ==
    /\ Float(BToInt(ReprDecimal(Float(n)))) = Float(n)
    /\ resp' = Converted(n, web3, Wei(Float(n), web3))
    /\ UNCHANGED <<ledger, local_counter, file, kyc_records, kyc_documents,
                   explanations, hist, issued, calls, config, chain, sent,
                   disk_ok, torn, result, served, log>>

NextWei == \E n \in WeiAmounts, web3 \in BOOLEAN : ConvertWei(n, web3)

SpecWei == Init /\ [][NextWei]_vars

\* ---------------------------------------------------------------------------
\* Properties.  hist logs, for each loan created on main.py's instance since
\* the last start, the amounts of the fund and repay calls made on it and the
\* status each call left behind.
\* ---------------------------------------------------------------------------

RECURSIVE PrefixSum(_, _)
PrefixSum(seq, n) == IF n = 0 THEN 0 ELSE PrefixSum(seq, n - 1) + seq[n]

Loan(id) == ledger["main"][id]
FundOnly(id) == hist[id].repays = <<>> /\ hist[id].disburses = 0
MutationOps == {"fund", "disburse", "repay"}

\* C1 (as stated): on a loan that is only funded, the call after which the
\* status is "Funded" is exactly the first call at which the sum of the
\* amounts funded so far reaches the principal: no call before it leaves
\* "Funded", every call from it on does, so the Pending -> Funded transition
\* happens once.
C1_FundedAtThreshold ==
    \A id \in DOMAIN hist :
        FundOnly(id) =>
            LET h == hist[id]
                reached(i) ==
                    \E j \in 1..i : PrefixSum(h.funds, j) >= Loan(id).principal
                enters == {i \in 1..Len(h.funds) :
                             /\ h.fundStatus[i] = "Funded"
                             /\ (i = 1 \/ h.fundStatus[i - 1] # "Funded")}
            IN  /\ \A i \in 1..Len(h.funds) :
                     (h.fundStatus[i] = "Funded") <=> reached(i)
                /\ Cardinality(enters) <= 1

\* C2 (as stated): the status after a repay call is "Repaid" exactly when the
\* cumulative amount of the repay calls so far has reached total_repayment.
C2_RepaidAtThreshold ==
    \A id \in DOMAIN hist :
        LET h == hist[id]
        IN  \A i \in 1..Len(h.repays) :
                (h.repayStatus[i] = "Repaid")
                    <=> \E j \in 1..i :
                            PrefixSum(h.repays, j) >= h.total_repayment

\* C3 (as stated): no fund, disburse or repay call changes the status of a
\* loan that is "Repaid".
C3_RepaidTerminal ==
    [][resp'.op \in MutationOps =>
          \A id \in DOMAIN ledger["main"] :
              ledger["main"][id].status = "Repaid"
                  => ledger'["main"][id].status = "Repaid"]_vars

\* C4: two fund calls of 0.6 on a loan of principal 1.0, taken in either
\* order and with nothing else done to the loan, both succeed and leave
\* funded_amount = 1.2 and status "Funded".
C4_BothFundingsCounted ==
    \A id \in DOMAIN hist :
        (/\ Loan(id).principal = Unit
         /\ FundOnly(id)
         /\ hist[id].funds = <<6 * (Unit \div 10), 6 * (Unit \div 10)>>)
            => /\ Loan(id).funded_amount = Float(12 * (Unit \div 10))
               /\ Loan(id).status = "Funded"
               /\ (resp.op = "fund" /\ resp.loan_id = id => resp.success)

\* Both 0.6 fundings of a 1.0 loan have been handled.
C4_Witness ==
    \E id \in DOMAIN hist :
        /\ Loan(id).principal = Unit
        /\ FundOnly(id)
        /\ hist[id].funds = <<6 * (Unit \div 10), 6 * (Unit \div 10)>>
        /\ resp.op = "fund" /\ resp.loan_id = id

CreateOps == {"create_main", "create_route"}

\* A hash that is a fixed-length hex identifier: 64 hex digits, with or
\* without the 0x prefix.
IsHashIdentifier(h) == h.hex /\ (h.len = HashMinLen \/ h.len = HashMaxLen)

\* The request names a hash that is empty, malformed, or in no record store.
BadReference(req) ==
    \/ ~IsHashIdentifier(req.kyc_hash)
    \/ ~IsHashIdentifier(req.explanation_hash)
    \/ req.kyc_hash \notin kyc_records
    \/ req.explanation_hash \notin explanations

\* C5 (as stated): a create-loan request whose kyc_hash or explanation_hash
\* is empty, is not a fixed-length hex identifier, or is not in its record
\* store is answered with a client-input error and creates no loan.
C5_InvalidReferenceRejected ==
    (resp.op \in CreateOps /\ BadReference(resp.req))
        => /\ resp.code \in 400..499
           /\ ~resp.success
           /\ ~resp.bridge

\* C6 (as stated): whenever an entry point that creates loans has invoked
\* create_loan, the check of the request's two hashes against their record
\* stores had succeeded.
C6_GateBeforeBridge ==
    (resp.op \in CreateOps \cup {"workflow"} /\ resp.bridge)
        => resp.gate = "passed"

\* C7 (as stated): no loan id is handed out by create_loan more than once,
\* across the service instances of the process and across restarts.
C7_LoanIdsUnique == \A id \in LoanIds : issued[id] <= 1

\* C8: the total_repayment of a loan stays the value create_loan computed,
\* whatever fund, disburse and repay calls follow.
C8_TotalRepaymentFixed ==
    \A id \in DOMAIN hist :
        Loan(id).total_repayment = hist[id].total_repayment

\* A loan that has been funded, disbursed and repaid.
C8_Witness ==
    \E id \in DOMAIN hist :
        /\ hist[id].funds # <<>>
        /\ hist[id].repays # <<>>
        /\ hist[id].disburses > 0

\* a * b as high and low parts in base Unit.
Wide(a, b) == MulDivMod(a, b, Unit)

\* tr is a multiple of 10^-8 within half of 10^-8 of
\* principal * (1 + interest_rate / 10000 * term_days / 365), compared after
\* multiplying both by 10000 * 365.
IsRoundedRepayment(principal, interest_rate, term_days, tr) ==
    LET lhs == Wide(tr, BasisPoints * DaysPerYear)
        rhs == Wide(principal,
                    BasisPoints * DaysPerYear + interest_rate * term_days)
        dq  == lhs.q - rhs.q
        dr  == lhs.r - rhs.r
        half == (BasisPoints * DaysPerYear * Tick) \div 2
    IN  /\ tr % Tick = 0
        /\ dq \in {-1, 0, 1}
        /\ dq * Unit + dr <= half
        /\ dq * Unit + dr >= -half

\* C9 (as stated): for principal > 0, 0 <= interest_rate <= 10000 and 7 <= term_days <=
\* 365, the total_repayment create_loan stores is
\* principal * (1 + interest_rate / 10000 * term_days / 365) rounded to 8
\* decimal places.
C9_TotalRepaymentFormula ==
    \A s \in Services : \A id \in DOMAIN ledger[s] :
        LET e == ledger[s][id]
        IN  (/\ e.principal > 0
             /\ e.interest_rate \in 0..MaxInterestRate
             /\ e.term_days \in MinTermDays..MaxTermDays)
                => IsRoundedRepayment(e.principal, e.interest_rate,
                                      e.term_days, e.total_repayment)

\* The loan of the worked scenario: createLoan(1.0, 90, 1000, ...) as the
\* first loan of main.py's instance, still in the log.
ScenarioLoan ==
    /\ 1 \in DOMAIN hist
    /\ Loan(1).principal = Unit
    /\ Loan(1).term_days = 90
    /\ Loan(1).interest_rate = 1000

\* The answer to that createLoan on an empty local backend.
ScenarioCreated ==
    /\ resp.op = "workflow" /\ resp.success
    /\ resp.req.principal = Unit /\ resp.req.term_days = 90
    /\ resp.req.interest_rate = 1000
    /\ Cardinality(DOMAIN ledger["main"]) = 1

\* The scenario's fund(1, 1.0) and repay(1, 1.2466), whatever their order.
ScenarioFunded == ScenarioLoan /\ hist[1].funds = <<Unit>>
ScenarioRepaid == ScenarioLoan /\ hist[1].repays = <<12466 * (Unit \div 10000)>>

\* The rest of the scenario, given the stored total is within `within` of
\* `total`.
Scenario(total, within) ==
    /\ ScenarioCreated
         => /\ resp.loan_id = 1
            /\ 1 \in DOMAIN ledger["main"]
            /\ Loan(1).total_repayment - total \in -within..within
            /\ Loan(1).status = "Pending"
    /\ ScenarioFunded => hist[1].fundStatus = <<"Funded">>
    /\ ScenarioRepaid => hist[1].repayStatus = <<"Repaid">>

\* C10 (as stated): on an empty local backend createLoan(1.0, 90, 1000, ...)
\* returns loanId 1 with total_repayment about 1.2466 (to the 4 decimals
\* given) and status "Pending"; fund(1, 1.0) then leaves "Funded" and
\* repay(1, 1.2466) leaves "Repaid".
C10_ScenarioAsStated ==
    Scenario(12466 * (Unit \div 10000), 5 * (Unit \div 100000))

\* C10 (amended): the same scenario with total_repayment = 1.02465753, the
\* value of 1.0 * (1 + 1000/10000 * 90/365) rounded to 8 decimals.
C10_Scenario == Scenario(102465753 * Tick, 0)

\* The scenario has run to its end: created, funded with 1.0, repaid with
\* 1.2466.
C10_Witness ==
    /\ ScenarioFunded
    /\ ScenarioRepaid
    /\ hist[1].disburses = 0
    /\ resp.op = "repay"
    /\ Loan(1).status = "Repaid"

\* ---------------------------------------------------------------------------
\* Properties of the backends.  served holds, for the service calls made
\* since the process started, whether each was mutating or reading and the
\* backend that served it.
\* ---------------------------------------------------------------------------

\* C11: all the operations of the bridge (create, fund, disburse, repay, get,
\* list by borrower) are served by one backend for the whole lifetime of the
\* process: no two service calls since the start were served by different
\* backends.
C11_OneBackend == \A x \in served : \A y \in served : x[2] = y[2]

\* C12: when the RPC transport did not answer at the time the service was
\* constructed, every mutating call since then has been executed on the local
\* ledger, whatever contract address and private key are configured.
C12_UnreachableStaysLocal ==
    ~config.rpc => \A x \in served : x[1] = "mutate" => x[2] = "local"

\* C13: at every point of a local mutation, a crash while persisting
\* included, the ledger file is a complete document, the one before the
\* mutation or the one after it: no step leaves a cut-off document, and the
\* document after a step is the one before it or the ledger of an instance.
C13_FileNeverTorn ==
    [][/\ ~torn'
       /\ file' = file \/ \E s \in Services : file' = ledger'[s]]_vars

\* C14: when writing the ledger file fails, the mutating call reports a
\* failure: no call on the local ledger has answered success while the
\* document on disk lacks its mutation, so after a successful create, fund,
\* disburse or repay the document is whole and equals the ledger of the
\* instance that served the call.
C14_SuccessIsPersisted ==
    (/\ resp.bridge
     /\ resp.success
     /\ resp.op \in CreateOps \cup MutationOps \cup {"workflow"})
        => /\ ~torn
           /\ file = ledger[IF resp.op = "create_route" THEN "routes" ELSE "main"]

\* C15: get_loan on a loan id that does not exist answers not-found on the
\* local backend and on the on-chain backend alike, and the HTTP read answers
\* 404: the last answer of GET /api/loans/{id} for an id the backend that
\* serves reads does not hold is a 404 without a record.
C15_AbsentIsNotFound ==
    (/\ resp.op = "get"
     /\ IF ReadsOnChain THEN resp.loan_id \notin 1..chain.loans
        ELSE resp.loan_id \notin DOMAIN ledger["main"])
        => resp.code = 404 /\ ~resp.success

\* C16: fund_loan, disburse_loan and repay_loan on a loan id absent from the
\* local ledger answer a not-found failure and leave the ledger in memory,
\* the id counter and the file as they were: every step that ends in the
\* answer of such a call on an id the ledger did not hold reports
\* "loan_not_found" without success and changes none of the three.
C16_NotFoundChangesNothing ==
    [][(resp'.op \in MutationOps /\ resp'.loan_id \notin DOMAIN ledger["main"])
          => /\ ~resp'.success
             /\ result'.report = Report(FALSE, "loan_not_found", FALSE)
             /\ ledger' = ledger
             /\ local_counter' = local_counter
             /\ file' = file]_vars

\* A fund on an id the ledger of main.py's instance does not hold was answered
\* while the file holds loans.
C16_Witness ==
    /\ resp.op \in MutationOps
    /\ ~resp.success
    /\ result.report.error = "loan_not_found"
    /\ resp.loan_id \notin DOMAIN ledger["main"]
    /\ file # <<>>

\* C17: no two transactions submitted from the signing account carry the
\* same nonce, calls that follow a call whose wait for the receipt ran out
\* included: the nonces of the transactions the node took are all different.
C17_NoncesDiffer ==
    \A i \in 1..Len(sent) : \A j \in 1..Len(sent) : i # j => sent[i] # sent[j]

C20_LoansNeverDeleted ==
    \A id \in LoanIds :
        issued[id] > 0 =>
            /\ id \in DOMAIN file
            /\ \E s \in Services : id \in DOMAIN ledger[s]

\* C19: in every state of the local ledger the funded amount and the
\* amount repaid of every loan are at least zero, whatever fund and repay
\* calls the API has accepted.
C19_TotalsNotNegative ==
    \A s \in Services : \A id \in DOMAIN ledger[s] :
        /\ FGe(GetFunded(ledger[s][id]), FZero)
        /\ ledger[s][id].amount_repaid >= 0

\* C21: converting an amount to base units and back gives the amount,
\* fromBaseUnits(toBaseUnits(x)) = x, through Web3 and through the fallback
\* arithmetic of _wei / _from_wei alike.
C21_WeiRoundTrip ==
    resp.op = "wei" => resp.req.back = Float(resp.req.amount)

\* The place of a status in the order Pending -> Funded -> Disbursed ->
\* Repaid; 0 for anything else.
StatusRank(status) ==
    CASE status = "Pending" -> 1
      [] status = "Funded" -> 2
      [] status = "Disbursed" -> 3
      [] status = "Repaid" -> 4
      [] OTHER -> 0

\* C22: the status of a loan is one of Pending, Funded, Disbursed, Repaid
\* and no fund, disburse or repay call moves it to an earlier one in that
\* order: across every such call each loan's status keeps or raises its
\* rank.
C22_StatusNeverBack ==
    [][resp'.op \in MutationOps =>
          \A id \in DOMAIN ledger["main"] :
              /\ StatusRank(ledger'["main"][id].status) > 0
              /\ StatusRank(ledger'["main"][id].status)
                     >= StatusRank(ledger["main"][id].status)]_vars

\* C23: disburse_loan on a loan the local ledger holds succeeds and leaves
\* its status Disbursed, whatever its status and funded amount were: every
\* disburse call on a held id answers success and the loan is Disbursed
\* after it.
C23_DisburseUnconditional ==
    [][(resp'.op = "disburse" /\ resp'.loan_id \in DOMAIN ledger["main"])
          => /\ resp'.success
             /\ ledger'["main"][resp'.loan_id].status = "Disbursed"]_vars

\* A loan that was never funded has been disbursed.
C23_Witness ==
    /\ resp.op = "disburse"
    /\ resp.success
    /\ resp.loan_id \in DOMAIN ledger["main"]
    /\ "funded_amount" \notin DOMAIN Loan(resp.loan_id)
    /\ Loan(resp.loan_id).status = "Disbursed"

\* The fields a fund, disburse or repay call may write.
Running == {"funded_amount", "amount_repaid", "status"}

TermsInRange(r) ==
    /\ r.principal > 0
    /\ r.principal >= MinLoanAmount
    /\ \/ r.principal \div Unit < MaxLoanAmount
       \/ r.principal \div Unit = MaxLoanAmount /\ r.principal % Unit = 0
    /\ r.interest_rate >= 0 /\ r.interest_rate <= MaxInterestRate
    /\ r.term_days >= MinTermDays /\ r.term_days <= MaxTermDays

\* C25: every loan the bridge stores, whichever entry point created it, has
\* its principal, interest_rate and term_days inside the ranges, and a
\* request outside them is answered without a call to the backend.
C25_StoredTermsInRange ==
    /\ \A s \in Services : \A id \in DOMAIN ledger[s] : TermsInRange(ledger[s][id])
    /\ (resp.op \in CreateOps \cup {"workflow"} /\ ~TermsInRange(resp.req))
          => ~resp.bridge

\* C26: after every local mutation that answered success the document on
\* disk equals the ledger in memory of the instance that served it, so that
\* a service built from the file afterwards holds the same records and an
\* id counter equal to the largest stored id, which is the counter of that
\* instance.
C26_RestartSeesLedger ==
    (/\ resp.bridge
     /\ resp.success
     /\ resp.op \in CreateOps \cup MutationOps \cup {"workflow"})
        => /\ ~torn
           /\ file = ledger[IF resp.op = "create_route" THEN "routes" ELSE "main"]
           /\ MaxKey(file)
                 = local_counter[IF resp.op = "create_route" THEN "routes" ELSE "main"]

\* C27: when a mutating call on the on-chain path fails (the transport does
\* not answer, the node refuses, the transaction reverts or the wait for the
\* receipt runs out) the local ledger in memory and on disk and the local id
\* counter stay as they were: the call is not made again on the local
\* backend.
C27_FailureLeavesLocal ==
    [][(/\ result'.kind = "mutate"
        /\ result'.backend = "chain"
        /\ ~result'.report.success)
          => /\ ledger' = ledger
             /\ local_counter' = local_counter
             /\ file' = file]_vars

\* Since the start the transport has failed one on-chain call, another was
\* reverted and the last one ran out of time.
C27_Witness ==
    /\ \E r \in log : r.fate = "down"
    /\ \E r \in log : r.fate = "reverted"
    /\ result.fate = "timeout"
    /\ ledger = [s \in Services |-> <<>>]

\* C28: every mutating call of the bridge submits at most one transaction to
\* the remote ledger, and a refused submission, a revert or a timeout is
\* answered without sending again: across every step the transactions sent
\* grow by one at most, by none when the call met no node or a refusal, and
\* by exactly the one of the call when it was reverted or ran out of time.
C28_OneTransactionPerCall ==
    [][/\ Len(sent') <= Len(sent) + 1
       /\ SubSeq(sent', 1, Len(sent)) = sent
       /\ (result' # result /\ result'.fate \in {"down", "rejected"})
             => sent' = sent]_vars

\* Two calls were made, the first reverted and the second ran out of time,
\* and two transactions were sent.
C28_Witness ==
    /\ Len(sent) = 2
    /\ result.fate = "timeout"
    /\ \E r \in log : r.fate = "reverted"
    /\ chain.pending # {}

\* C29: when the transaction of an on-chain create_loan is included and
\* succeeds, the call answers success with the transaction reference whether
\* or not a LoanCreated event can be decoded from the receipt, with loan_id
\* 0 when none can: the answer to an included create is a success that
\* carries the reference and an id of the contract or 0, never a failure.
C29_UndecodedIsSuccess ==
    (/\ resp.op \in CreateOps \cup {"workflow"}
     /\ resp.bridge
     /\ result.backend = "chain"
     /\ result.fate = "included")
        => /\ resp.success
           /\ resp.code = 200
           /\ result.report.success
           /\ result.report.tx_hash
           /\ resp.loan_id \in 0..chain.loans

\* A create was included and no event could be decoded: success, loan_id 0,
\* and the contract holds a loan.
C29_Witness ==
    /\ resp.op = "workflow"
    /\ result.fate = "included"
    /\ resp.success
    /\ resp.loan_id = 0
    /\ result.report.tx_hash
    /\ chain.loans > 0

\* Addresses that differ in the case of their letters only.
CaseClasses == {{"0xBorrower", "0xBORROWER"}, {"0xOther", "0xOTHER"}}
SameIgnoringCase(a, b) == \E c \in CaseClasses : a \in c /\ b \in c

\* C30: on the local backend get_borrower_loans(address) answers exactly the
\* ids of the loans whose borrower is address up to the case of the letters,
\* and neither it nor get_loan changes the ledger, the id counter or the
\* file.
C30_ReadsArePure ==
    [][resp'.op \in {"get", "list"} =>
          /\ ledger' = ledger
          /\ local_counter' = local_counter
          /\ file' = file
          /\ resp'.op = "list" =>
                resp'.req.loans =
                    {id \in DOMAIN ledger["main"] :
                        SameIgnoringCase(ledger["main"][id].borrower,
                                         resp'.req.address)}]_vars

\* The loans of one of two borrowers were listed under an address written
\* in capitals.
C30_Witness ==
    /\ resp.op = "list"
    /\ resp.req.address = "0xBORROWER"
    /\ resp.req.loans # {}
    /\ resp.req.loans # DOMAIN ledger["main"]

====
